---- MODULE Spec2Model ----
(***************************************************************************)
(* Model of the Iranian national id validator, NationalId::try_from, of    *)
(* src/lib.rs.  A text is a sequence of characters; a character is a       *)
(* one-character string.  try_from is modelled twice from the same         *)
(* helpers: step by step (the actions below, one per statement) and as the *)
(* operator TryFrom, which the relational properties apply to a second     *)
(* text.                                                                   *)
(***************************************************************************)
EXTENDS Integers, Sequences, FiniteSets, TLC

VARIABLES input, pc, value, digits, sum, result

vars == <<input, pc, value, digits, sum, result>>

(* ---------------------------- bounds ----------------------------------- *)

\* longest free tail appended to a seed text
MaxTail == 2

\* longest run of whitespace put around a text
MaxWs == 1

(* ------------------------ program constants ---------------------------- *)

\* the width of format!("{:0>10}")
Width == 10

\* digits.len() != 10
IdLen == 10

\* the weight of digit i is 10 - i
WeightBase == 10

\* (0..9): the digits that are summed
SumLen == 9

\* sum % 11 and rem + control_digit == 11
Modulus == 11

(* ----------------------------- characters ------------------------------ *)

DigitChars == {"0", "1", "2", "3", "4", "5", "6", "7", "8", "9"}

\* the value to_digit gives for a character that is no digit (None)
NoDigit == -1

\* char::is_whitespace, on the characters of the model
IsWhitespace(c) == c \in {" ", "\t"}

\* char::to_digit(10): Some(d) for an ASCII decimal digit, None otherwise
ToDigit(c) ==
    CASE c = "0" -> 0
      [] c = "1" -> 1
      [] c = "2" -> 2
      [] c = "3" -> 3
      [] c = "4" -> 4
      [] c = "5" -> 5
      [] c = "6" -> 6
      [] c = "7" -> 7
      [] c = "8" -> 8
      [] c = "9" -> 9
      [] OTHER -> NoDigit

(* ------------------------------ helpers -------------------------------- *)

\* the number of leading whitespace characters of s
RECURSIVE LeadWs(_)
LeadWs(s) ==
    IF s = <<>> \/ ~IsWhitespace(Head(s)) THEN 0 ELSE 1 + LeadWs(Tail(s))

\* the number of trailing whitespace characters of s
RECURSIVE TrailWs(_)
TrailWs(s) ==
    IF s = <<>> \/ ~IsWhitespace(s[Len(s)]) THEN 0
    ELSE 1 + TrailWs(SubSeq(s, 1, Len(s) - 1))

\* a trim that removes at most one whitespace character at each end
TrimOneEach(s) ==
    LET a == IF s # <<>> /\ IsWhitespace(Head(s)) THEN Tail(s) ELSE s
    IN  IF a # <<>> /\ IsWhitespace(a[Len(a)]) THEN SubSeq(a, 1, Len(a) - 1)
        ELSE a

\* a trim that forgets the trailing whitespace
TrimStartOnly(s) == SubSeq(s, LeadWs(s) + 1, Len(s))

\* str::trim: s without its leading and trailing whitespace
Trim(s) ==
    IF LeadWs(s) = Len(s) THEN <<>>
    ELSE SubSeq(s, LeadWs(s) + 1, Len(s) - TrailWs(s))

\* a pad that fills on the right, as {:0<10} does
PadZerosRight(s) ==
    IF Len(s) >= Width THEN s
    ELSE s \o [i \in 1..(Width - Len(s)) |-> "0"]

\* a pad that also cuts a longer text down to the width
PadZerosTruncating(s) ==
    IF Len(s) >= Width THEN SubSeq(s, 1, Width)
    ELSE [i \in 1..(Width - Len(s)) |-> "0"] \o s

\* format!("{:0>10}", s): s right-aligned in a field of 10, filled with '0';
\* a text of 10 characters or more is left as it is
PadZeros(s) ==
    IF Len(s) >= Width THEN s
    ELSE [i \in 1..(Width - Len(s)) |-> "0"] \o s

\* value.chars().filter_map(|c| c.to_digit(10)).collect()
RECURSIVE ExtractDigits(_)
ExtractDigits(s) ==
    IF s = <<>> THEN <<>>
    ELSE IF ToDigit(Head(s)) = NoDigit THEN ExtractDigits(Tail(s))
         ELSE <<ToDigit(Head(s))>> \o ExtractDigits(Tail(s))

\* a length test that lets short digit vectors through
LengthOkAtMost(d) == Len(d) <= IdLen

\* digits.len() != 10 is false
LengthOk(d) == Len(d) = IdLen

\* the sum of d[i] * (10 - i) over the indices i..8 (0-based), unbounded
RECURSIVE SumFrom(_, _)
SumFrom(d, i) ==
    IF i >= SumLen THEN 0 ELSE d[i + 1] * (WeightBase - i) + SumFrom(d, i + 1)

\* (0..9).map(|i| digits[i] * (10 - i) as u32).sum(); the value is kept
\* exact, and NoOverflow below bounds it far under 2^32, where u32 wraps
WeightedSum(d) == SumFrom(d, 0)

\* a test that takes rem == control_digit for every rem
ControlOkLoose(s, c) ==
    LET rem == s % Modulus
    IN  rem = c \/ (rem >= 2 /\ rem + c = Modulus)

\* a test with the threshold of the two cases moved
ControlOkShifted(s, c) ==
    LET rem == s % Modulus
    IN  (rem < 1 /\ rem = c) \/ (rem >= 1 /\ rem + c = Modulus)

\* (rem < 2 && rem == control_digit) || (rem >= 2 && rem + control_digit == 11)
ControlOk(s, c) ==
    LET rem == s % Modulus
    IN  (rem < 2 /\ rem = c) \/ (rem >= 2 /\ rem + c = Modulus)

\* a zero test that is never true
SumIsZeroNever(s) == FALSE

\* sum == 0
SumIsZero(s) == s = 0

(* ------------------------------ results -------------------------------- *)

\* no result yet
Pending == [tag |-> "pending", id |-> <<>>]

\* Err(NationalIdError)
Err == [tag |-> "err", id |-> <<>>]

\* Ok(NationalId(v))
Ok(v) == [tag |-> "ok", id |-> v]

\* Deref::deref: the string a NationalId holds
Deref(r) == r.id

\* a panic: an index out of bounds, or unwrap on None
Panicked == [tag |-> "panic", id |-> <<>>]

\* try_from as one function of the text
TryFrom(x) ==
    LET v == PadZeros(Trim(x))
        d == ExtractDigits(v)
    IN  IF ~LengthOk(d) THEN Err
        ELSE IF Len(d) < SumLen THEN Panicked
        ELSE IF SumIsZero(WeightedSum(d)) THEN Err
        ELSE IF ControlOk(WeightedSum(d), d[Len(d)]) THEN Ok(v)
        ELSE Err

(* ------------------------------ inputs --------------------------------- *)

\* the characters a free tail is made of: the digits, a letter, a blank
TailChars == DigitChars \cup {"a", " "}

\* the texts over cs of length at most n
SeqsUpTo(cs, n) == UNION {[1..k -> cs] : k \in 0..n}

\* the texts the free tails are appended to: the texts of the tests of
\* lib.rs cut short, and texts with a letter or whitespace inside
Seeds ==
    { <<>>,
      <<"0","8","1","4","6","5","9","4">>,
      <<"0","8","1","4","6","5","9","4","3">>,
      <<"0","8","1","4","6","5","9","4","3","8">>,
      <<"0","0","4","0","0","1","0","0">>,
      <<"4","5","1","7","2","6","7">>,
      <<"0","0","0","0","0","0","0","0">>,
      <<"1","2","3","4","5","6">>,
      <<"a","8","1","4","6","5","9","4">>,
      <<"0","8","\t","1","4","6","5","9","4">> }

\* the whitespace put around a text
WsRuns == SeqsUpTo({" "}, MaxWs)

\* the texts try_from is called with
Inputs == {w1 \o s \o t \o w2 :
             w1 \in WsRuns, s \in Seeds, t \in SeqsUpTo(TailChars, MaxTail),
             w2 \in WsRuns}

(* ----------------------------- try_from -------------------------------- *)

Init ==
    /\ input \in Inputs
    /\ pc = "format"
    /\ value = <<>>
    /\ digits = <<>>
    /\ sum = 0
    /\ result = Pending

\* let value = format!("{:0>10}", value.trim());
Format ==
    /\ pc = "format"
    /\ value' = PadZeros(Trim(input))
    /\ pc' = "collect"
    /\ UNCHANGED <<input, digits, sum, result>>

\* let digits: Vec<u32> = value.chars().filter_map(..).collect();
Collect ==
    /\ pc = "collect"
    /\ digits' = ExtractDigits(value)
    /\ pc' = "length"
    /\ UNCHANGED <<input, value, sum, result>>

\* if digits.len() != 10 { return Err(NationalIdError); }
LengthCheck ==
    /\ pc = "length"
    /\ IF LengthOk(digits)
       THEN pc' = "sum" /\ result' = result
       ELSE pc' = "done" /\ result' = Err
    /\ UNCHANGED <<input, value, digits, sum>>

\* let sum: u32 = (0..9).map(..).sum();  digits[i] panics out of bounds
ComputeSum ==
    /\ pc = "sum"
    /\ IF Len(digits) < SumLen
       THEN pc' = "done" /\ result' = Panicked /\ sum' = sum
       ELSE pc' = "zero" /\ result' = result /\ sum' = WeightedSum(digits)
    /\ UNCHANGED <<input, value, digits>>

\* if sum == 0 { return Err(NationalIdError); }
ZeroCheck ==
    /\ pc = "zero"
    /\ IF SumIsZero(sum)
       THEN pc' = "done" /\ result' = Err
       ELSE pc' = "control" /\ result' = result
    /\ UNCHANGED <<input, value, digits, sum>>

\* let control_digit = *digits.last().unwrap(); ... Ok(NationalId(value)) or Err
ControlCheck ==
    /\ pc = "control"
    /\ IF digits = <<>>
       THEN result' = Panicked
       ELSE IF ControlOk(sum, digits[Len(digits)])
            THEN result' = Ok(value)
            ELSE result' = Err
    /\ pc' = "done"
    /\ UNCHANGED <<input, value, digits, sum>>

Next ==
    \/ Format
    \/ Collect
    \/ LengthCheck
    \/ ComputeSum
    \/ ZeroCheck
    \/ ControlCheck

Spec == Init /\ [][Next]_vars

(* ------------------- the vocabulary of the properties ------------------ *)

\* a ten-character text used below
T0814659438 == <<"0","8","1","4","6","5","9","4","3","8">>

T0451726707 == <<"0","4","5","1","7","2","6","7","0","7">>

T451726707 == <<"4","5","1","7","2","6","7","0","7">>

TZeros == <<"0","0","0","0","0","0","0","0","0","0">>

T0814659438a == T0814659438 \o <<"a">>

\* every character of s is one of '0'..'9'
OnlyDigits(s) == \A i \in 1..Len(s) : s[i] \in DigitChars

\* the number a digit character stands for
NumOf(c) == CHOOSE n \in 0..9 : ToString(n) = c

\* S of a text of ten digit characters: the weighted sum of the first nine
SOf(s) ==
    NumOf(s[1]) * 10 + NumOf(s[2]) * 9 + NumOf(s[3]) * 8 + NumOf(s[4]) * 7
    + NumOf(s[5]) * 6 + NumOf(s[6]) * 5 + NumOf(s[7]) * 4 + NumOf(s[8]) * 3
    + NumOf(s[9]) * 2

\* the checksum relation between S and the tenth digit
Relation(s) ==
    LET r == SOf(s) % 11
        c == NumOf(s[10])
    IN  (r < 2 /\ c = r) \/ (r >= 2 /\ c + r = 11)

\* s is a text of exactly ten digit characters
TenDigits(s) == Len(s) = 10 /\ OnlyDigits(s)

\* s left-padded with '0' to ten characters (s has at most ten)
LeftPad10(s) ==
    [i \in 1..10 |-> IF i <= 10 - Len(s) THEN "0" ELSE s[i - (10 - Len(s))]]

\* the input without its surrounding whitespace
Trimmed == Trim(input)

\* the position of a statement in try_from
Rank(p) ==
    CASE p = "format" -> 0
      [] p = "collect" -> 1
      [] p = "length" -> 2
      [] p = "sum" -> 3
      [] p = "zero" -> 4
      [] p = "control" -> 5
      [] p = "done" -> 6

\* the largest weighted sum: 9 * (10 + 9 + ... + 2)
MaxSum == 9 * (10 + 9 + 8 + 7 + 6 + 5 + 4 + 3 + 2)

(* ------------------------------ properties ----------------------------- *)

\* C1: whenever try_from returns Ok(n), the string n holds has length 10,
\* only decimal digits, a non-zero weighted sum and a tenth digit in the
\* checksum relation.
ConstructionImpliesValidity ==
    (pc = "done" /\ result.tag = "ok") =>
        /\ Len(Deref(result)) = 10
        /\ OnlyDigits(Deref(result))
        /\ SOf(Deref(result)) # 0
        /\ Relation(Deref(result))

\* C2: an input whose trimmed form holds a character that is no decimal
\* digit is rejected with Err, whatever its length.
NonDigitRejected ==
    (pc = "done" /\ ~OnlyDigits(Trimmed)) => result = Err

\* C3: on an input of exactly ten digits try_from returns Ok exactly when S
\* is non-zero and the checksum relation holds, and then the NationalId
\* dereferences to the input unchanged.
TenDigitAcceptance ==
    (pc = "done" /\ TenDigits(input)) =>
        /\ result.tag = "ok" <=> (SOf(input) # 0 /\ Relation(input))
        /\ result.tag = "ok" => Deref(result) = input
        /\ result.tag \in {"ok", "err"}

TenDigitAcceptanceWitness ==
    pc = "done" /\ input = T0814659438 /\ result = Ok(T0814659438)

\* C4: when ten digits are extracted and the first nine are all zero, the
\* result is Err whatever the tenth digit; the empty, blank, "0" and
\* "0000000000" inputs are rejected; and the sum is zero only when the first
\* nine digits are all zero.
ZeroSumRejection ==
    /\ (pc = "done" /\ Len(digits) = 10 /\ \A i \in 1..9 : digits[i] = 0)
           => result = Err
    /\ (pc = "done" /\ input \in {<<>>, <<" ">>, <<"0">>, TZeros})
           => result = Err
    /\ (pc \in {"zero", "control"} /\ sum = 0)
           => \A i \in 1..9 : digits[i] = 0

ZeroSumRejectionWitness ==
    pc = "done" /\ input = TZeros /\ sum = 0 /\ result = Err

\* C5: when try_from returns Ok(n), try_from of the string n holds returns
\* an equal Ok.
IdempotentRevalidation ==
    (pc = "done" /\ result.tag = "ok") => TryFrom(Deref(result)) = result

IdempotentRevalidationWitness ==
    pc = "done" /\ result.tag = "ok" /\ Deref(result) # input

\* C6: an input and the same input with whitespace taken off its two ends
\* have equal outcomes: both Err, or both Ok with the same string.
TrimLaw ==
    pc = "done" =>
        \A a \in 0..LeadWs(input), b \in 0..TrailWs(input) :
            a + b <= Len(input) =>
                TryFrom(SubSeq(input, a + 1, Len(input) - b)) = result

TrimLawWitness ==
    /\ pc = "done"
    /\ LeadWs(input) > 0
    /\ TrailWs(input) > 0
    /\ result = Ok(T0814659438)

\* C7: when the trimmed input is digits only and at most ten long, try_from
\* succeeds on it exactly when it succeeds on the trimmed input left-padded
\* with zeros to ten, and both then hold that padded string.
PaddingLaw ==
    (pc = "done" /\ OnlyDigits(Trimmed) /\ Len(Trimmed) <= 10) =>
        LET p == LeftPad10(Trimmed)
        IN  /\ result.tag = "ok" <=> TryFrom(p).tag = "ok"
            /\ result.tag = "ok" => (Deref(result) = p /\ TryFrom(p) = Ok(p))

PaddingLawWitness ==
    pc = "done" /\ Trimmed = T451726707 /\ result = Ok(T0451726707)

\* C8: try_from never panics and always goes on to a result: the indexed
\* reads are reached only with exactly ten digits, every digit is in 0..9,
\* the sum is at most 486 and rem + control_digit at most 19 (so nothing
\* overflows u32), every statement but the last has a next one, and every
\* step moves forward.
TotalityState ==
    /\ result # Panicked
    /\ pc \in {"sum", "zero", "control"} => Len(digits) = 10
    /\ \A i \in 1..Len(digits) : digits[i] \in 0..9
    /\ sum \in 0..MaxSum
    /\ pc = "control" => (sum % 11) + digits[10] <= 19
    /\ pc = "done" <=> result \in {Err, Ok(value)}
    /\ pc # "done" => ENABLED Next

Totality == [](TotalityState) /\ [][Rank(pc') = Rank(pc) + 1 \/ pc' = "done"]_vars

TotalityWitness ==
    pc = "control" /\ Len(digits) = 10 /\ sum > 0

\* C9: when the digits extracted are not exactly ten the result is Err; a
\* digits-only trimmed input longer than ten is rejected, and so is a trimmed
\* input of at most ten characters with a non-digit in it.
LengthGate ==
    pc = "done" =>
        /\ Len(digits) # 10 => result = Err
        /\ (OnlyDigits(Trimmed) /\ Len(Trimmed) > 10) => result = Err
        /\ (~OnlyDigits(Trimmed) /\ Len(Trimmed) <= 10) => result = Err

LengthGateWitness ==
    /\ pc = "done"
    /\ OnlyDigits(Trimmed)
    /\ Len(Trimmed) > 10
    /\ SubSeq(Trimmed, 1, 10) = T0814659438
    /\ result = Err

\* C10: for the first nine digits of a ten-digit input, exactly one tenth
\* digit is accepted when they are not all zero (r if r < 2, 11 - r
\* otherwise) and none when they are; the input is accepted exactly when its
\* tenth digit is that one.
ControlDigitFunction ==
    (pc = "done" /\ TenDigits(input)) =>
        LET p == SubSeq(input, 1, 9)
            r == SOf(input) % 11
            accepted == {c \in DigitChars : TryFrom(p \o <<c>>).tag = "ok"}
        IN  /\ (\A i \in 1..9 : p[i] = "0") => accepted = {}
            /\ (\E i \in 1..9 : p[i] # "0") =>
                   accepted = {ToString(IF r < 2 THEN r ELSE 11 - r)}
            /\ result.tag = "ok" <=> input[10] \in accepted
            /\ \A c \in accepted : result.tag = "ok" => p \o <<c>> = Deref(result)

ControlDigitFunctionWitness ==
    /\ pc = "done"
    /\ TenDigits(input)
    /\ SOf(input) % 11 >= 2
    /\ result = Err

====
